---- MODULE Spec2Model ----
(***************************************************************************)
(* A model of the rlwe crate's algebraic core:                             *)
(*   - ModularBigInt<C>        (src/src/cyclotomic.rs, lines 12-118)       *)
(*   - Cyclotomic<T, C>        (src/src/cyclotomic.rs, lines 120-169)      *)
(*   - Element<R>, Vector      (src/src/traits.rs)                         *)
(*                                                                         *)
(* A ModularBigInt<C> is modelled by its `representant` (an integer); its  *)
(* modulus is the type parameter C, modelled by the variable m, which is   *)
(* fixed for a behaviour.  An Element<Cyclotomic<T, C>> is modelled by the *)
(* sequence of its coefficients' representants; the degree T is the        *)
(* variable n.  Sequences are 1-based: code index i is position i + 1.     *)
(***************************************************************************)
EXTENDS Integers, Sequences, FiniteSets, TLC

VARIABLES
    m,              \* C::to_biguint(): the characteristic of the instantiation
    n,              \* T::to_usize(): the degree of the instantiation
    sx, sy,         \* two ModularBigInt<C> values (self / other)
    sop,            \* the last ModularBigInt operation and its operands
    vec,            \* the Vector being converted (its coordinates)
    coordinates,    \* From<Vector>: the local `coordinates`
    slice,          \* From<Vector>: the local `slice` (the accumulator)
    i,              \* From<Vector>: the loop index
    pc,             \* From<Vector>: the position in the function body
    remCalls,       \* From<Vector>: calls of rem() made by the conversion so far
    a, b,           \* two Elements of the ring
    r,              \* the result of the last Element operation
    op              \* the last Element operation

vars == <<m, n, sx, sy, sop, vec, coordinates, slice, i, pc, remCalls, a, b, r, op>>

(***************************************************************************)
(* Bounds of the model.                                                    *)
(***************************************************************************)
MaxModulus == 7         \* ModularBigInt layer: moduli 0 .. MaxModulus
MaxInput == 16          \* ModularBigInt layer: From<BigInt> inputs in -MaxInput .. MaxInput
MaxMagnitude == 16      \* ModularBigInt layer, CharZero: cap on the exact results
MaxLen == 5             \* From<Vector>: vectors of length 0 .. MaxLen
MaxCoord == 2           \* From<Vector>: coordinates in -MaxCoord .. MaxCoord
MaxRingLen == 3         \* Element layer: operands are converted from vectors of length 0 .. MaxRingLen
MaxRingCoord == 1       \* Element layer: with coordinates in -MaxRingCoord .. MaxRingCoord
MaxCoef == 4            \* Element layer, CharZero: cap on the coefficients fed back as operands

(***************************************************************************)
(* Instantiations of the type parameters.                                  *)
(***************************************************************************)
CharZero == 0
Char7 == 7
Characteristics == {CharZero, 2, 3, Char7}
Degrees == {1, 2}

(***************************************************************************)
(* Arithmetic of num_bigint::BigInt used by the code.                      *)
(***************************************************************************)
Abs(k) == IF k >= 0 THEN k ELSE -k

\* BigInt % BigInt truncates toward zero: the remainder has the dividend's sign.
TruncRem(k, d) == IF k >= 0 THEN k % d ELSE -((-k) % d)

(***************************************************************************)
(* ModularBigInt<C>.                                                       *)
(***************************************************************************)
\* A plausible slip in rem: the test against `left` made strict.
RemStrictLeft(representant, modulus) ==
    IF modulus = 0 THEN representant
    ELSE LET right == modulus \div 2
             left == right - modulus
             rep == TruncRem(representant, modulus)
         IN  IF rep < left THEN rep + modulus
             ELSE IF rep > right THEN rep - modulus
             ELSE rep

\* A plausible slip in rem: the zero characteristic reduced like a machine word
\* (a signed 4-bit one, so that the model's bounds reach it).
RemWordSized(representant, modulus) ==
    IF modulus = 0 THEN ((representant + 8) % 16) - 8
    ELSE LET right == modulus \div 2
             left == right - modulus
             rep == TruncRem(representant, modulus)
         IN  IF rep <= left THEN rep + modulus
             ELSE IF rep > right THEN rep - modulus
             ELSE rep

\* A plausible slip in rem: a negative remainder at or below `left` not
\* lifted by the modulus (the first branch missing).
RemNoLift(representant, modulus) ==
    IF modulus = 0 THEN representant
    ELSE LET right == modulus \div 2
             rep == TruncRem(representant, modulus)
         IN  IF rep > right THEN rep - modulus ELSE rep

\* impl Rem<BigUint> for ModularBigInt<C>
Rem(representant, modulus) ==
    IF modulus = 0 THEN representant
    ELSE LET right == modulus \div 2
             left == right - modulus
             rep == TruncRem(representant, modulus)
         IN  IF rep <= left THEN rep + modulus
             ELSE IF rep > right THEN rep - modulus
             ELSE rep

\* impl From<BigInt> for ModularBigInt<C>
FromBigInt(x, ch) == Rem(x, ch)

\* impl Zero for ModularBigInt<C>: the representant is set to zero, unreduced
ZeroCoefficient == 0

\* impl Add for ModularBigInt<C>
ModAdd(self, other, ch) == Rem(self + other, ch)

\* impl AddAssign for ModularBigInt<C>: the value *self holds afterwards
ModAddAssign(self, other, ch) == Rem(self + other, ch)

\* impl SubAssign for ModularBigInt<C>: the value *self holds afterwards
ModSubAssign(self, other, ch) == Rem(self - other, ch)

\* A plausible slip in mul: the product returned without `% C::to_biguint()`.
ModMulUnreduced(self, other, ch) == self * other

\* impl Mul for ModularBigInt<C>
ModMul(self, other, ch) == Rem(self * other, ch)

(***************************************************************************)
(* Reference notions the properties are stated with (not code).            *)
(***************************************************************************)
\* r is the balanced residue of the integer x modulo mod (mod > 0).
IsBalancedResidue(res, x, mod) ==
    /\ (res - x) % mod = 0
    /\ (mod \div 2) - mod < res
    /\ res <= mod \div 2

\* res is the canonical representative of x for the characteristic ch.
IsCanonicalOf(res, x, ch) ==
    IF ch = 0 THEN res = x ELSE IsBalancedResidue(res, x, ch)

\* res is a canonical representative (of itself) for the characteristic ch.
IsCanonical(res, ch) == IsCanonicalOf(res, res, ch)

(***************************************************************************)
(* The ModularBigInt layer: two values, built by From<BigInt> and combined *)
(* by the arithmetic operators.  sop records the last operation with the   *)
(* integers it was applied to.                                             *)
(***************************************************************************)
scalarVars == <<sx, sy, sop>>
foldVars == <<vec, coordinates, slice, i, pc, remCalls>>
ringVars == <<a, b, r, op>>

NoOp == [name |-> "zero", lhs |-> 0, rhs |-> 0]

ScalarIdle ==
    /\ sx = ZeroCoefficient
    /\ sy = ZeroCoefficient
    /\ sop = NoOp

FoldIdle ==
    /\ vec = <<>>
    /\ coordinates = <<>>
    /\ slice = <<>>
    /\ i = 0
    /\ pc = "idle"
    /\ remCalls = 0

RingIdle ==
    /\ a = <<>>
    /\ b = <<>>
    /\ r = <<>>
    /\ op = "idle"

\* The exact results of the unbounded (CharZero) domain are capped.
WithinCap(val) == m = 0 => Abs(val) <= MaxMagnitude

ScalarInit ==
    /\ m \in 0 .. MaxModulus
    /\ n = 1
    /\ ScalarIdle
    /\ FoldIdle
    /\ RingIdle

\* let sx: ModularBigInt<C> = x.into()
ScalarFrom(x) ==
    /\ sx' = FromBigInt(x, m)
    /\ sop' = [name |-> "from", lhs |-> x, rhs |-> 0]
    /\ UNCHANGED <<sy, m, n, foldVars, ringVars>>

\* let sy: ModularBigInt<C> = x.into()
ScalarFromOther(x) ==
    /\ sy' = FromBigInt(x, m)
    /\ sop' = [name |-> "from_other", lhs |-> x, rhs |-> 0]
    /\ UNCHANGED <<sx, m, n, foldVars, ringVars>>

\* sx = sx + sy
ScalarAdd ==
    /\ WithinCap(sx + sy)
    /\ sx' = ModAdd(sx, sy, m)
    /\ sop' = [name |-> "add", lhs |-> sx, rhs |-> sy]
    /\ UNCHANGED <<sy, m, n, foldVars, ringVars>>

\* sx += sy
ScalarAddAssign ==
    /\ WithinCap(sx + sy)
    /\ sx' = ModAddAssign(sx, sy, m)
    /\ sop' = [name |-> "add_assign", lhs |-> sx, rhs |-> sy]
    /\ UNCHANGED <<sy, m, n, foldVars, ringVars>>

\* sx -= sy
ScalarSubAssign ==
    /\ WithinCap(sx - sy)
    /\ sx' = ModSubAssign(sx, sy, m)
    /\ sop' = [name |-> "sub_assign", lhs |-> sx, rhs |-> sy]
    /\ UNCHANGED <<sy, m, n, foldVars, ringVars>>

\* sx = sx * sy
ScalarMul ==
    /\ WithinCap(sx * sy)
    /\ sx' = ModMul(sx, sy, m)
    /\ sop' = [name |-> "mul", lhs |-> sx, rhs |-> sy]
    /\ UNCHANGED <<sy, m, n, foldVars, ringVars>>

ScalarNext ==
    \/ \E x \in -MaxInput .. MaxInput : ScalarFrom(x)
    \/ \E x \in -MaxInput .. MaxInput : ScalarFromOther(x)
    \/ ScalarAdd
    \/ ScalarAddAssign
    \/ ScalarSubAssign
    \/ ScalarMul

ScalarSpec == ScalarInit /\ [][ScalarNext]_vars

\* The exact integer the last arithmetic operation computes before reducing.
ExactValue ==
    CASE sop.name \in {"from", "from_other"} -> sop.lhs
      [] sop.name \in {"add", "add_assign"} -> sop.lhs + sop.rhs
      [] sop.name = "sub_assign" -> sop.lhs - sop.rhs
      [] sop.name = "mul" -> sop.lhs * sop.rhs
      [] OTHER -> 0

\* The value the last operation produced.
Produced == IF sop.name = "from_other" THEN sy ELSE sx

\* C3: for every modulus m > 0 and every integer x, the representative stored
\* by construction from x, and by every add, add-assign, sub-assign and mul
\* whose exact integer value is x, is congruent to x modulo m and lies in
\* (floor(m/2) - m, floor(m/2)].
C3_CanonicalResidueRange ==
    (m > 0 /\ sop.name # "zero") =>
        /\ (Produced - ExactValue) % m = 0
        /\ (m \div 2) - m < Produced
        /\ Produced <= m \div 2

\* An even modulus, a negative exact difference on the closed end's mirror:
\* 0 - 2 = -2 is stored as 2 modulo 4.
C3_Witness ==
    /\ m = 4
    /\ sop.name = "sub_assign"
    /\ ExactValue = -2
    /\ sx = 2

\* C6: under CharZero, construction stores x unchanged and add, add-assign,
\* sub-assign and mul return exactly the integer sum, difference and product
\* of the operands' representatives.
C6_ZeroCharExact ==
    m = 0 =>
        /\ sop.name \in {"from", "from_other"} => Produced = sop.lhs
        /\ sop.name \in {"add", "add_assign"} => sx = sop.lhs + sop.rhs
        /\ sop.name = "sub_assign" => sx = sop.lhs - sop.rhs
        /\ sop.name = "mul" => sx = sop.lhs * sop.rhs

\* A product under CharZero larger than either operand: 4 * (-4) = -16.
C6_Witness ==
    /\ m = 0
    /\ sop.name = "mul"
    /\ sop.lhs = 4
    /\ sop.rhs = -4
    /\ sx = -16

(***************************************************************************)
(* From<Vector> for Element<Cyclotomic<T, C>>, statement by statement.     *)
(* Code index k of a Vec is position k + 1 of the sequence.                *)
(***************************************************************************)
Coords == -MaxCoord .. MaxCoord

\* The Vectors of length 0 .. len (From<Vec<i64>> for Vector stores the integers as given).
VectorsUpTo(len) == UNION {[1 .. l -> Coords] : l \in 0 .. len}

\* vec![Zero::zero(); degree]
Zeros(degree) == [k \in 1 .. degree |-> ZeroCoefficient]

\* A plausible slip: the coordinates wrapped without the reduction `% ch`.
ConvertUnreduced(p, ch) == p

\* p.coordinates.to_vec().iter().map(|x| x.clone().into()).collect()
Convert(p, ch) == [k \in 1 .. Len(p) |-> FromBigInt(p[k], ch)]

\* coordinates.resize(degree, Zero::zero()), for coordinates.len() <= degree
Resize(coords, degree) ==
    [k \in 1 .. degree |-> IF k <= Len(coords) THEN coords[k] ELSE ZeroCoefficient]

\* A plausible slip: the block number's division by the degree forgotten.
BlockIsEvenNoDivision(k, degree) == k % 2 = 0

\* i / degree % 2 == 0
BlockIsEven(k, degree) == (k \div degree) % 2 = 0

\* One iteration of the loop, for index k: slice[k % degree] += / -= coordinates[k]
Accumulate(acc, coords, k, degree, ch) ==
    LET pos == (k % degree) + 1
    IN  IF BlockIsEven(k, degree)
        THEN [acc EXCEPT ![pos] = ModAddAssign(acc[pos], coords[k + 1], ch)]
        ELSE [acc EXCEPT ![pos] = ModSubAssign(acc[pos], coords[k + 1], ch)]

FoldInit ==
    /\ m \in Characteristics
    /\ n \in Degrees
    /\ vec \in VectorsUpTo(MaxLen)
    /\ coordinates = <<>>
    /\ slice = <<>>
    /\ i = 0
    /\ pc = "start"
    /\ remCalls = 0
    /\ ScalarIdle
    /\ RingIdle

\* let mut coordinates = ... .collect(): one into(), so one rem(), per entry
FoldConvert ==
    /\ pc = "start"
    /\ coordinates' = Convert(vec, m)
    /\ remCalls' = remCalls + Len(vec)
    /\ pc' = "converted"
    /\ UNCHANGED <<vec, slice, i, ringVars, m, n, scalarVars>>

\* coordinates.len() <= degree: resize, clone_from_slice, Element { coefficients }
FoldPad ==
    /\ pc = "converted"
    /\ Len(coordinates) <= n
    /\ coordinates' = Resize(coordinates, n)
    /\ r' = coordinates'
    /\ op' = "from"
    /\ pc' = "done"
    /\ UNCHANGED <<vec, slice, i, remCalls, a, b, m, n, scalarVars>>

\* coordinates.len() > degree: let mut slice = vec![Zero::zero(); degree]
FoldAlloc ==
    /\ pc = "converted"
    /\ Len(coordinates) > n
    /\ slice' = Zeros(n)
    /\ i' = 0
    /\ pc' = "loop"
    /\ UNCHANGED <<vec, coordinates, remCalls, ringVars, m, n, scalarVars>>

\* for i in 0..coordinates.len(): one += or -=, so one rem()
FoldStep ==
    /\ pc = "loop"
    /\ i < Len(coordinates)
    /\ slice' = Accumulate(slice, coordinates, i, n, m)
    /\ remCalls' = remCalls + 1
    /\ i' = i + 1
    /\ UNCHANGED <<vec, coordinates, pc, ringVars, m, n, scalarVars>>

\* clone_from_slice(&slice), Element { coefficients }
FoldFinish ==
    /\ pc = "loop"
    /\ i = Len(coordinates)
    /\ r' = slice
    /\ op' = "from"
    /\ pc' = "done"
    /\ UNCHANGED <<vec, coordinates, slice, i, remCalls, a, b, m, n, scalarVars>>

FoldNext ==
    \/ FoldConvert
    \/ FoldPad
    \/ FoldAlloc
    \/ FoldStep
    \/ FoldFinish

FoldSpec == FoldInit /\ [][FoldNext]_vars

(***************************************************************************)
(* References for the conversion's properties (not code).                  *)
(***************************************************************************)
\* The signed sum of the entries v[j], j < upto, j mod degree = p, with the
\* sign + when floor(j / degree) is even and - when it is odd.
RECURSIVE PartialSignedSum(_, _, _, _)
PartialSignedSum(v, degree, p, upto) ==
    IF upto = 0 THEN 0
    ELSE LET j == upto - 1
             term == IF j % degree # p THEN 0
                     ELSE IF (j \div degree) % 2 = 0 THEN v[j + 1] ELSE -v[j + 1]
         IN  PartialSignedSum(v, degree, p, j) + term

SignedSum(v, degree, p) == PartialSignedSum(v, degree, p, Len(v))

\* The remainder of the polynomial v modulo X^degree + 1 by long division:
\* the leading term c X^k, k >= degree, is cancelled by subtracting
\* c X^(k - degree) (X^degree + 1), until the degree is below `degree`.
RECURSIVE PolyRem(_, _)
PolyRem(v, degree) ==
    IF Len(v) <= degree
    THEN [k \in 1 .. degree |-> IF k <= Len(v) THEN v[k] ELSE 0]
    ELSE LET top == Len(v)
             c == v[top]
             rest == [k \in 1 .. top - 1 |->
                        IF k = top - degree THEN v[k] - c ELSE v[k]]
         IN  PolyRem(rest, degree)

\* C1: for a vector longer than the degree, the Element's coefficient p is the
\* canonical representative of the signed sum over the entries i with
\* i mod n = p (+ in even blocks, - in odd blocks), which is the remainder of
\* the polynomial modulo X^n + 1.
C1_FoldCorrect ==
    (pc = "done" /\ Len(vec) > n) =>
        /\ Len(r) = n
        /\ \A p \in 0 .. n - 1 :
              /\ IsCanonicalOf(r[p + 1], SignedSum(vec, n, p), m)
              /\ IsCanonicalOf(r[p + 1], PolyRem(vec, n)[p + 1], m)

\* Three blocks of degree 2 under characteristic 7: (2, -2, -2, 2, 2) folds
\* to (2 + 2 + 2, -2 - 2) = (6, -4), stored as (-1, 3).
C1_Witness ==
    /\ pc = "done"
    /\ n = 2
    /\ m = Char7
    /\ vec = <<2, -2, -2, 2, 2>>
    /\ r = <<-1, 3>>

\* C2 as stated: for a vector no longer than the degree, coefficient i is
\* v[i] itself for i < L and zero from L on, whatever the characteristic.
C2_PaddingAsStated ==
    (pc = "done" /\ Len(vec) <= n) =>
        /\ Len(r) = n
        /\ \A k \in 1 .. n : r[k] = IF k <= Len(vec) THEN vec[k] ELSE 0

\* C2 amended: for a vector no longer than the degree, coefficient i is the
\* canonical representative of v[i] for i < L (v[i] itself under
\* characteristic zero, its balanced residue under a prime) and zero from L on.
C2_PaddingCanonical ==
    (pc = "done" /\ Len(vec) <= n) =>
        /\ Len(r) = n
        /\ \A k \in 1 .. n :
              IF k <= Len(vec) THEN IsCanonicalOf(r[k], vec[k], m) ELSE r[k] = 0

\* Degree 2, characteristic 3: (2) pads to (-1, 0).
C2_Witness ==
    /\ pc = "done"
    /\ n = 2
    /\ m = 3
    /\ vec = <<2>>
    /\ r = <<-1, 0>>

\* C10: while a vector longer than the degree is folded under a prime
\* characteristic, each slot holds the exact unreduced signed partial sum of
\* the raw entries processed so far (no addition or subtraction has reduced
\* it), and in the end exactly one reduction per slot has been made.
\* The code does not do this: see ReducedEveryStep.
C10_DeferredAsStated ==
    (m > 0 /\ Len(vec) > n) =>
        /\ pc = "loop" =>
              \A p \in 0 .. n - 1 : slice[p + 1] = PartialSignedSum(vec, n, p, i)
        /\ pc = "done" => remCalls = n

\* What the code does instead: each slot holds the balanced residue of the
\* signed partial sum of the entries processed so far, the reduction being
\* applied to every entry when it is converted and again after every single
\* addition or subtraction (2 L reductions for L entries).
ReducedEveryStep ==
    (m > 0 /\ Len(vec) > n) =>
        /\ pc = "loop" =>
              /\ \A p \in 0 .. n - 1 :
                    IsBalancedResidue(slice[p + 1], PartialSignedSum(vec, n, p, i), m)
              /\ remCalls = Len(vec) + i
        /\ pc = "done" => remCalls = 2 * Len(vec)

\* In the middle of a fold of degree 1 under characteristic 3: after
\* 2 - (-2) = 4 the slot holds 1, with one entry still to come.
ReducedEveryStepReached ==
    /\ pc = "loop"
    /\ m = 3
    /\ n = 1
    /\ vec = <<2, -2, 1>>
    /\ i = 2
    /\ slice = <<1>>
    /\ PartialSignedSum(vec, n, 0, i) = 4

(***************************************************************************)
(* The Element layer: two Elements converted from Vectors, combined by     *)
(* add, hadamard and RlweRing::mul; a result may be used as an operand of  *)
(* the next operation.                                                     *)
(***************************************************************************)
\* From<Vector> for Element<Cyclotomic<T, C>>, the loop run to its end.
RECURSIVE FoldLoop(_, _, _, _, _)
FoldLoop(acc, coords, k, degree, ch) ==
    IF k = Len(coords) THEN acc
    ELSE FoldLoop(Accumulate(acc, coords, k, degree, ch), coords, k + 1, degree, ch)

\* From<Vector> for Element<Cyclotomic<T, C>>
FromVector(p, degree, ch) ==
    LET coords == Convert(p, ch)
    IN  IF Len(coords) <= degree
        THEN Resize(coords, degree)
        ELSE FoldLoop(Zeros(degree), coords, 0, degree, ch)

\* Iterator::zip stops with the shorter of the two
ZipLen(self, other) == IF Len(self) <= Len(other) THEN Len(self) ELSE Len(other)

\* A plausible slip: the sum of the coefficients stored without the reduction.
ElemAddUnreduced(self, other, ch) ==
    [k \in 1 .. ZipLen(self, other) |-> self[k] + other[k]]

\* impl Add<&Element<R>> for Element<R>
ElemAdd(self, other, ch) ==
    [k \in 1 .. ZipLen(self, other) |-> ModAdd(self[k], other[k], ch)]

\* A plausible slip: self zipped with its own clone instead of other.
ElemHadamardOfSelf(self, other, ch) ==
    [k \in 1 .. ZipLen(self, other) |-> ModMul(self[k], self[k], ch)]

\* Element::hadamard
ElemHadamard(self, other, ch) ==
    [k \in 1 .. ZipLen(self, other) |-> ModMul(self[k], other[k], ch)]

RingCoords == -MaxRingCoord .. MaxRingCoord
RingVectors == UNION {[1 .. l -> RingCoords] : l \in 0 .. MaxRingLen}

RingInit ==
    /\ m \in Characteristics
    /\ n \in Degrees
    /\ \E va \in RingVectors : a = FromVector(va, n, m)
    /\ \E vb \in RingVectors : b = FromVector(vb, n, m)
    /\ r = <<>>
    /\ op = "from"
    /\ ScalarIdle
    /\ FoldIdle

\* RlweRing::mul has panicked: the thread of the caller is gone.
Panicked == op = "mul"

\* let r = a.clone() + &b
RingAdd ==
    /\ ~Panicked
    /\ r' = ElemAdd(a, b, m)
    /\ op' = "add"
    /\ UNCHANGED <<a, b, m, n, scalarVars, foldVars>>

\* let r = a.clone().hadamard(&b)
RingHadamard ==
    /\ ~Panicked
    /\ r' = ElemHadamard(a, b, m)
    /\ op' = "hadamard"
    /\ UNCHANGED <<a, b, m, n, scalarVars, foldVars>>

\* let r = Cyclotomic::mul(a.clone(), b.clone()): the body is todo!(), which
\* panics; no Element is returned.
RingMul ==
    /\ ~Panicked
    /\ r' = <<>>
    /\ op' = "mul"
    /\ UNCHANGED <<a, b, m, n, scalarVars, foldVars>>

\* The coefficients of the unbounded (CharZero) domain are capped.
CoefWithinCap(e) == m = 0 => \A k \in 1 .. Len(e) : Abs(e[k]) <= MaxCoef

\* let a = r
RingReuseAsSelf ==
    /\ op \in {"add", "hadamard"}
    /\ CoefWithinCap(r)
    /\ a' = r
    /\ r' = <<>>
    /\ op' = "reuse"
    /\ UNCHANGED <<b, m, n, scalarVars, foldVars>>

\* let b = r
RingReuseAsOther ==
    /\ op \in {"add", "hadamard"}
    /\ CoefWithinCap(r)
    /\ b' = r
    /\ r' = <<>>
    /\ op' = "reuse"
    /\ UNCHANGED <<a, m, n, scalarVars, foldVars>>

RingNext ==
    \/ RingAdd
    \/ RingHadamard
    \/ RingMul
    \/ RingReuseAsSelf
    \/ RingReuseAsOther

RingSpec == RingInit /\ [][RingNext]_vars

\* The step-by-step conversion and FromVector are the same function.
FoldAgrees == pc = "done" => r = FromVector(vec, n, m)

(***************************************************************************)
(* References for the Element operations' properties (not code).           *)
(***************************************************************************)
\* The canonical representative of the integer x for the characteristic ch.
Canonical(x, ch) ==
    IF ch = 0 THEN x
    ELSE CHOOSE res \in ((ch \div 2) - ch + 1) .. (ch \div 2) : (res - x) % ch = 0

\* sum over j in lo .. hi of f[j]
RECURSIVE SumOver(_, _, _)
SumOver(f, lo, hi) == IF lo > hi THEN 0 ELSE f[lo] + SumOver(f, lo + 1, hi)

\* The full convolution c[k] = sum over i + j = k of x[i] y[j], k in 0 .. 2 n - 2
\* (position k + 1 of the sequence), for x and y of length n.
Convolution(x, y) ==
    LET deg == Len(x)
    IN  [k1 \in 1 .. 2 * deg - 1 |->
            LET k == k1 - 1
                lo == IF k - (deg - 1) > 0 THEN k - (deg - 1) ELSE 0
                hi == IF k < deg - 1 THEN k ELSE deg - 1
                terms == [j \in lo .. hi |-> x[j + 1] * y[k - j + 1]]
            IN  SumOver(terms, lo, hi)]

\* The product in K[X]/(X^n + 1): the convolution folded by blocks of n with
\* alternating signs, each coefficient canonical.
RingProduct(x, y, degree, ch) ==
    [p1 \in 1 .. degree |-> Canonical(SignedSum(Convolution(x, y), degree, p1 - 1), ch)]

\* The Element (1, 0, ..., 0).
One(degree) == [k \in 1 .. degree |-> IF k = 1 THEN 1 ELSE 0]

\* The Elements the state holds.
Held == {a, b} \cup (IF op \in {"add", "hadamard"} THEN {r} ELSE {})

\* C4: RlweRing::mul(a, b) returns the convolution of a and b folded by blocks
\* of n with alternating signs, each coefficient canonical; with
\* a = (1, 0, ..., 0) it returns b.
C4_RingMultiply ==
    op = "mul" =>
        /\ r = RingProduct(a, b, n, m)
        /\ a = One(n) => r = b

\* C5: every Element reached from conversions by add and hadamard has exactly
\* n coefficients, each one canonical for the characteristic.
C5_ElementInvariant ==
    \A e \in Held :
        /\ Len(e) = n
        /\ \A k \in 1 .. n : IsCanonical(e[k], m)

\* A hadamard product of a sum fed back as operand: degree 2, characteristic
\* 7, (-3, 1) x (2, 1) = (-6, 1), stored as (1, 1).
C5_Witness ==
    /\ m = Char7
    /\ n = 2
    /\ op = "hadamard"
    /\ a = <<-3, 1>>
    /\ b = <<2, 1>>
    /\ r = <<1, 1>>

\* C7: a + b has at every index the canonical representative of the exact sum
\* of the operands' coefficients; a + a has at every index the canonical
\* representative of the double.
C7_AddCoefficientwise ==
    op = "add" =>
        /\ Len(r) = n
        /\ \A k \in 1 .. n : IsCanonicalOf(r[k], a[k] + b[k], m)
        /\ a = b => \A k \in 1 .. n : IsCanonicalOf(r[k], 2 * a[k], m)

\* Doubling under characteristic 7: (2, 2) + (2, 2) = (4, 4), stored as (-3, -3).
C7_Witness ==
    /\ m = Char7
    /\ n = 2
    /\ op = "add"
    /\ a = <<2, 2>>
    /\ b = a
    /\ r = <<-3, -3>>

\* C8: a.hadamard(b) has at every index the canonical representative of the
\* exact product of the operands' coefficients; hadamard(a, a) has the
\* squares; hadamard(b, a) is the same Element.
C8_HadamardCoefficientwise ==
    op = "hadamard" =>
        /\ Len(r) = n
        /\ \A k \in 1 .. n : IsCanonicalOf(r[k], a[k] * b[k], m)
        /\ a = b => \A k \in 1 .. n : IsCanonicalOf(r[k], a[k] * a[k], m)
        /\ ElemHadamard(b, a, m) = r

\* Degree 2, characteristic 7: (2, -1) x (2, 2) = (4, -2), stored as (-3, -2),
\* which is not the ring product (2 - X)(2 + 2 X) = 4 + 2 X - 2 X^2 = 6 + 2 X,
\* stored as (-1, 2).
C8_Witness ==
    /\ m = Char7
    /\ n = 2
    /\ op = "hadamard"
    /\ a = <<2, -1>>
    /\ b = <<2, 2>>
    /\ r = <<-3, -2>>
    /\ RingProduct(a, b, n, m) = <<-1, 2>>

\* C9: on the Elements held, add is total (an Element of n coefficients),
\* commutative and associative, and the all-zero Element is its identity,
\* equality being that of the stored representatives.
C9_AddLaws ==
    \A x \in Held :
        /\ ElemAdd(x, Zeros(n), m) = x
        /\ \A y \in Held :
              /\ Len(ElemAdd(x, y, m)) = n
              /\ ElemAdd(x, y, m) = ElemAdd(y, x, m)
              /\ \A z \in Held :
                    ElemAdd(ElemAdd(x, y, m), z, m) = ElemAdd(x, ElemAdd(y, z, m), m)

\* Three different Elements under characteristic 7 whose sums wrap:
\* (2, 2) + (2, -2) = (-3, 0) has acted, and ((2,2) + (2,-2)) + (-3,0) = (1, 0).
C9_Witness ==
    /\ m = Char7
    /\ n = 2
    /\ op = "add"
    /\ a = <<2, 2>>
    /\ b = <<2, -2>>
    /\ r = <<-3, 0>>
    /\ ElemAdd(ElemAdd(a, b, m), r, m) = <<1, 0>>

====
